---- MODULE Spec2Model ----
(***************************************************************************)
(* Model of src/core/input_file.ts: the InputFile class (preprocess,       *)
(* guessFilename, the async generator behind Symbol.asyncIterator) and     *)
(* its helpers readFile, fetchFile, ResponseError and assertNever.         *)
(*                                                                         *)
(* Strings are sequences of tokens.  The token "/" is the path separator;  *)
(* every other token stands for a non-empty run of characters without a    *)
(* slash (and that is not a "." or ".." path segment).                     *)
(***************************************************************************)
EXTENDS Integers, Sequences, FiniteSets, TLC

\* ------------------------------------------------------------------ bounds
MaxLen == 3        \* longest path string, in tokens
ReadLen == 1       \* longest path string of an instance that is also read
MaxReads == 2      \* iterators obtained from one instance
MaxChunks == 2     \* chunks an underlying stream delivers before it ends

\* ------------------------------------------------------------------ strings
RECURSIVE StrsUpTo(_, _)
StrsUpTo(T, n) ==
    IF n = 0 THEN {<<>>}
    ELSE LET S == StrsUpTo(T, n - 1)
         IN  S \cup {Append(s, t) : s \in {x \in S : Len(x) = n - 1}, t \in T}

PathTokens == {"a", "/"}
Paths == StrsUpTo(PathTokens, MaxLen)

RECURSIVE StripTrailingSlashes(_)
StripTrailingSlashes(s) ==
    IF s # <<>> /\ s[Len(s)] = "/"
    THEN StripTrailingSlashes(SubSeq(s, 1, Len(s) - 1))
    ELSE s

RECURSIVE LastSegment(_)
LastSegment(s) ==
    IF s = <<>> \/ s[Len(s)] = "/" THEN <<>>
    ELSE Append(LastSegment(SubSeq(s, 1, Len(s) - 1)), s[Len(s)])

\* node:path basename (POSIX flavour): trailing separators are ignored, the
\* result is what follows the last remaining separator; "" for "" and "///".
basename(p) == LastSegment(StripTrailingSlashes(p))

\* An optional string (string | undefined).
Undefined == [def |-> FALSE, s |-> <<>>]
Str(s) == [def |-> TRUE, s |-> s]

\* ------------------------------------------------------------------ URLs
\* A URL in written form: scheme, host and path as they stand in the text.
NoUrlText == [scheme |-> "", host |-> <<>>, path |-> <<>>]     \* the string ""
UrlText(scheme, host, path) == [scheme |-> scheme, host |-> host, path |-> path]

SpecialSchemes == {"https", "file"}

\* WHATWG URL getters of the parsed text.
UrlProtocol(u) == <<u.scheme, ":">>
UrlHostname(u) == u.host
UrlPathname(u) ==
    IF u.scheme \in SpecialSchemes /\ u.path = <<>> THEN <<"/">> ELSE u.path

\* `data:;base64,${base64}`
DataUrlText(b64) == UrlText("data", <<>>, <<";base64,">> \o b64)

\* ------------------------------------------------------------------ values
\* A JavaScript value as the code can observe it: its class, the extra own
\* properties it carries, and the payload of each property.
Blank ==
    [cls |-> "Object", own |-> {}, base64 |-> <<>>, readable |-> "none",
     url |-> NoUrlText, path |-> <<>>, pathIsString |-> TRUE, name |-> <<>>,
     href |-> NoUrlText, status |-> 0, hasBody |-> FALSE, buf |-> ""]

\* Properties every instance of a class inherits from its prototype.
ProtoProps(cls) ==
    CASE cls = "Response" -> {"url", "body", "status", "ok"}
      [] cls = "Blob" -> {"stream"}
      [] cls = "File" -> {"stream", "name"}
      [] cls = "AsyncIterable" -> {"asyncIterator"}
      [] cls = "URL" -> {"href", "protocol", "hostname", "pathname"}
      [] OTHER -> {}

\* The `in` operator.
Has(o, p) == p \in o.own \cup ProtoProps(o.cls)

\* new URL(text)
NewURL(text) == [Blank EXCEPT !.cls = "URL", !.href = text]

\* Response.ok
ResponseOk(status) == status >= 200 /\ status <= 299

\* The values a caller can pass as `readable`.
HandleNames == {"iter", "iterWithStream", "fsReadStream"}
Handle(h) ==
    CASE h = "iter" -> [Blank EXCEPT !.cls = "AsyncIterable"]
      [] h = "iterWithStream" ->
            [Blank EXCEPT !.cls = "AsyncIterable", !.own = {"stream"}]
      [] h = "fsReadStream" ->
            [Blank EXCEPT !.cls = "AsyncIterable", !.own = {"path"},
                          !.path = <<"a", "/", "b">>]

\* ------------------------------------------------------------------ preprocess
\* Mutant: the `url` rule is tried before the Response rule.
preprocess_UrlBeforeResponse(data) ==
    IF Has(data, "base64") THEN NewURL(DataUrlText(data.base64))
    ELSE IF Has(data, "readable") THEN Handle(data.readable)
    ELSE IF Has(data, "url") THEN NewURL(data.url)
    ELSE IF data.cls = "Response" THEN data
    ELSE data

preprocess(data) ==
    IF Has(data, "base64") THEN NewURL(DataUrlText(data.base64))
    ELSE IF Has(data, "readable") THEN Handle(data.readable)
    ELSE IF data.cls = "Response" THEN data
    ELSE IF Has(data, "url") THEN NewURL(data.url)
    ELSE data

\* ------------------------------------------------------------------ guessFilename
\* Mutant: the `if (filename)` test on the path's basename is missing.
guessFilename_NoEmptyCheck(fileData) ==
    IF Has(fileData, "path") /\ fileData.pathIsString
    THEN Str(basename(fileData.path))
    ELSE LET file == IF Has(fileData, "url") /\ fileData.url # NoUrlText
                     THEN NewURL(fileData.url) ELSE fileData
         IN  IF file.cls = "File" THEN Str(file.name)
             ELSE IF file.cls # "URL" THEN Undefined
             ELSE IF UrlPathname(file.href) # <<"/">>
                  THEN Str(basename(UrlPathname(file.href)))
                  ELSE Str(basename(UrlHostname(file.href)))

guessFilename(fileData) ==
    IF Has(fileData, "path") /\ fileData.pathIsString
    THEN Str(basename(fileData.path))
    ELSE LET file == IF Has(fileData, "url") /\ fileData.url # NoUrlText
                     THEN NewURL(fileData.url) ELSE fileData
         IN  IF file.cls = "File" THEN Str(file.name)
             ELSE IF file.cls # "URL" THEN Undefined
             ELSE IF UrlPathname(file.href) # <<"/">>
                     /\ basename(UrlPathname(file.href)) # <<>>
                  THEN Str(basename(UrlPathname(file.href)))
                  ELSE Str(basename(UrlHostname(file.href)))

\* Mutant: `filename || this.guessFilename()`.
ConstructName_OrOperator(filename, fileData) ==
    IF filename # Undefined /\ filename.s # <<>> THEN filename
    ELSE guessFilename(fileData)

\* this.name = filename ?? this.guessFilename()
ConstructName(filename, fileData) ==
    IF filename # Undefined THEN filename ELSE guessFilename(fileData)

\* ------------------------------------------------------------------ inputs
\* Paths of a special-scheme URL as written: empty, or starting with "/".
UrlPaths == {p \in Paths : p = <<>> \/ p[1] = "/"}
UrlTexts ==
    {UrlText("https", <<"h">>, p) : p \in UrlPaths}
        \cup {UrlText("file", <<>>, p) : p \in UrlPaths}
Base64s == {<<>>, <<"a">>, <<"a", "/", "b">>}
Statuses == {200, 404}
Buffer == "buffer"  \* the contents of the Uint8Array the caller passes

BytesInputs == {[Blank EXCEPT !.cls = "Uint8Array", !.buf = Buffer]}
PathInputs == {[Blank EXCEPT !.own = {"path"}, !.path = p] : p \in Paths}
UrlFieldInputs == {[Blank EXCEPT !.own = {"url"}, !.url = u] : u \in UrlTexts}
UrlObjectInputs == {NewURL(u) : u \in UrlTexts}
BlobInputs ==
    {[Blank EXCEPT !.cls = "Blob"]}
        \cup {[Blank EXCEPT !.cls = "File", !.name = n] : n \in {<<>>, <<"n">>}}
ResponseInputs ==
    {[Blank EXCEPT !.cls = "Response", !.status = st, !.hasBody = b, !.url = u] :
        st \in Statuses, b \in BOOLEAN,
        u \in {NoUrlText, UrlText("https", <<"h">>, <<"/">>),
               UrlText("https", <<"h">>, <<"/", "a">>)}}
IterableInputs ==
    {Handle(h) : h \in HandleNames}
        \cup {[Blank EXCEPT !.cls = "AsyncIterable", !.own = {"path"},
                            !.pathIsString = FALSE]}
FunctionInputs == {[Blank EXCEPT !.cls = "Function"]}
ReadableInputs ==
    {[Blank EXCEPT !.own = {"readable"}, !.readable = h] : h \in HandleNames}
Base64Inputs == {[Blank EXCEPT !.own = {"base64"}, !.base64 = b] : b \in Base64s}
\* Objects that match more than one rule of preprocess.
MixedInputs ==
    {[Blank EXCEPT !.own = {"base64", "readable"}, !.base64 = <<"a">>,
                   !.readable = "iter"],
     [Blank EXCEPT !.own = {"base64", "url"}, !.base64 = <<"a">>,
                   !.url = UrlText("https", <<"h">>, <<"/", "a">>)],
     [Blank EXCEPT !.own = {"readable", "url"}, !.readable = "iter",
                   !.url = UrlText("https", <<"h">>, <<"/", "a">>)],
     [Blank EXCEPT !.own = {"readable", "path"}, !.readable = "iter",
                   !.path = <<"a">>]}

Inputs ==
    BytesInputs \cup PathInputs \cup UrlFieldInputs \cup UrlObjectInputs
        \cup BlobInputs \cup ResponseInputs \cup IterableInputs
        \cup FunctionInputs \cup ReadableInputs \cup Base64Inputs
        \cup MixedInputs

\* Reading never looks at a path beyond the URL's scheme: the instances that
\* are read carry the short paths only.
ReadInputs ==
    {f \in Inputs :
        \/ f \notin PathInputs \cup UrlFieldInputs \cup UrlObjectInputs
        \/ Len(f.path) <= ReadLen /\ Len(f.url.path) <= ReadLen
              /\ Len(f.href.path) <= ReadLen}

Filenames == {Undefined, Str(<<>>), Str(<<"f">>)}

\* ------------------------------------------------------------------ errors
NoError == [kind |-> "none", error_code |-> 0, response |-> Blank]
ReuseError == [kind |-> "TypeError: Cannot reuse InputFile data source!",
               error_code |-> 0, response |-> Blank]
\* new ResponseError(response)
ResponseError(response) ==
    [kind |-> "ResponseError", error_code |-> response.status,
     response |-> response]
\* assertNever(data)
assertNever == [kind |-> "TypeError: Unexpected", error_code |-> 0,
                response |-> Blank]
\* An error raised by the platform or by the caller's source, not by this code.
SourceError == [kind |-> "source", error_code |-> 0, response |-> Blank]

\* ------------------------------------------------------------------ state
VARIABLES
    file,        \* constructor argument `file`
    filename,    \* constructor argument `filename` (Undefined when omitted)
    phase,       \* "new" before the constructor has run, "built" after
    fileData,    \* InputFile.fileData
    name,        \* InputFile.name
    consumed,    \* InputFile.consumed
    reads,       \* the generators obtained from the instance, by number
    srcPos       \* chunks already taken from the caller's own stream
                 \* (fileData itself, or the body of a Response)

vars == <<file, filename, phase, fileData, name, consumed, reads, srcPos>>

ReadIds == 1..MaxReads

\* One generator.  pc is where it is suspended:
\*   none        not obtained yet
\*   created     obtained, body not started (no next() yet)
\*   awaitCall   at `await data()`
\*   awaitOpen   at `await readFile(..)`
\*   awaitFetch  at `await fetch(url)`
\*   yielded     at `yield data` (Uint8Array)
\*   drain       inside a `yield*`
\*   done / failed / returned   finished, threw, closed by the consumer
NoRead ==
    [pc |-> "none", branch |-> "none", out |-> <<>>, err |-> NoError,
     src |-> "none", pos |-> 0, calls |-> 0, opens |-> 0, fetches |-> 0,
     streams |-> 0, pulls |-> 0, handle |-> "none", response |-> Blank]

InitWith(files) ==
    /\ file \in files
    /\ filename \in Filenames
    /\ phase = "new"
    /\ fileData = Blank
    /\ name = Undefined
    /\ consumed = FALSE
    /\ reads = [r \in ReadIds |-> NoRead]
    /\ srcPos = 0

Init == InitWith(ReadInputs)
InitConstruct == InitWith(Inputs)

\* ------------------------------------------------------------------ constructor
\* Mutant: the constructor takes a first chunk from the source it is given.
Construct_TakesChunk ==
    /\ phase = "new"
    /\ phase' = "built"
    /\ fileData' = preprocess(file)
    /\ name' = ConstructName(filename, preprocess(file))
    /\ srcPos' = srcPos + 1
    /\ UNCHANGED <<file, filename, consumed, reads>>

Construct ==
    /\ phase = "new"
    /\ phase' = "built"
    /\ fileData' = preprocess(file)
    /\ name' = ConstructName(filename, preprocess(file))
    /\ UNCHANGED <<file, filename, consumed, reads, srcPos>>

\* ------------------------------------------------------------------ reading
\* Mutant: direct iteration is tried before the `stream` member.
Branch_IterateBeforeStream(data, con) ==
    IF con THEN "reuse"
    ELSE IF data.cls = "Function" THEN "function"
    ELSE IF data.cls = "Uint8Array" THEN "bytes"
    ELSE IF Has(data, "asyncIterator") THEN "iterate"
    ELSE IF Has(data, "stream") THEN "stream"
    ELSE IF Has(data, "path") THEN "path"
    ELSE IF data.cls = "Response" THEN "response"
    ELSE IF data.cls = "URL" THEN "url"
    ELSE "never"

\* The if/else chain of the generator, in the order of the code.
Branch(data, con) ==
    IF con THEN "reuse"
    ELSE IF data.cls = "Function" THEN "function"
    ELSE IF data.cls = "Uint8Array" THEN "bytes"
    ELSE IF Has(data, "stream") THEN "stream"
    ELSE IF Has(data, "asyncIterator") THEN "iterate"
    ELSE IF Has(data, "path") THEN "path"
    ELSE IF data.cls = "Response" THEN "response"
    ELSE IF data.cls = "URL" THEN "url"
    ELSE "never"

\* Mutant: the test of fetchFile, `!response.ok || response.body === null`.
responseThrows_AlsoStatus(data) == ~ResponseOk(data.status) \/ ~data.hasBody

\* Mutant: the response's status is tested instead of its body.
responseThrows_StatusTest(data) == ~ResponseOk(data.status)

\* Line 112: `data.body === null`.
responseThrows(data) == ~data.hasBody

\* Mutant: `return data` in place of `yield data`.
yieldBytes_Return(data) == <<>>

\* Line 103: what the Uint8Array branch yields.
yieldBytes(data) == <<data.buf>>

\* The i-th chunk of a stream.
Chunk(i) == ToString(i)

\* Mutant: the iterable branch does not set the flag.
SetsConsumed_NotIterable(data, b) == b = "response" /\ ~responseThrows(data)

\* Mutant: the flag is set by every read that gets past the check.
SetsConsumed_EveryBranch(data, b) == b # "reuse"

\* Mutant: the flag is also set by the URL branch.
SetsConsumed_AlsoUrl(data, b) ==
    \/ b \in {"iterate", "url"}
    \/ b = "response" /\ ~responseThrows(data)

\* Mutant: the response branch sets the flag before it tests the body.
SetsConsumed_BeforeBodyTest(data, b) == b \in {"iterate", "response"}

\* Mutant: the response branch does not set the flag.
SetsConsumed_NotResponse(data, b) == b = "iterate"

\* Whether the branch taken executes `this.consumed = true`.
SetsConsumed(data, b) ==
    \/ b = "iterate"
    \/ b = "response" /\ ~responseThrows(data)

\* fetchFile up to its first await: which helper it calls.
fetchFileCalls(url) ==
    IF UrlProtocol(url.href) = <<"file">> THEN "readFile" ELSE "fetch"

\* Mutant: `!response.ok` is not tested.
fetchFileThrows_BodyOnly(response) == ~response.hasBody

\* fetchFile after `await fetch(url)`: does it throw?
fetchFileThrows(response) ==
    ~ResponseOk(response.status) \/ ~response.hasBody

\* readFile(path): the file is opened (Deno.open / fs.createReadStream).
readFile(rd) == [rd EXCEPT !.pc = "awaitOpen", !.opens = @ + 1]

\* The generator from its start to its first suspension or throw.
BeginRead(rd, data, b) ==
    LET r0 == [rd EXCEPT !.branch = b]
    IN  CASE b = "reuse" -> [r0 EXCEPT !.pc = "failed", !.err = ReuseError]
          [] b = "function" -> [r0 EXCEPT !.pc = "awaitCall", !.calls = @ + 1]
          [] b = "bytes" -> [r0 EXCEPT !.pc = "yielded", !.out = @ \o yieldBytes(data)]
          [] b = "stream" ->
                [r0 EXCEPT !.pc = "drain", !.src = "own", !.streams = @ + 1,
                           !.handle = "stream"]
          [] b = "iterate" -> [r0 EXCEPT !.pc = "drain", !.src = "shared"]
          [] b = "path" -> readFile(r0)
          [] b = "response" ->
                IF responseThrows(data)
                THEN [r0 EXCEPT !.pc = "failed", !.err = ResponseError(data)]
                ELSE [r0 EXCEPT !.pc = "drain", !.src = "shared"]
          [] b = "url" ->
                IF fetchFileCalls(data) = "readFile" THEN readFile(r0)
                ELSE [r0 EXCEPT !.pc = "awaitFetch", !.fetches = @ + 1]
          [] OTHER -> [r0 EXCEPT !.pc = "failed", !.err = assertNever]

\* file[Symbol.asyncIterator](): the generator object is created, none of its
\* body runs.
NewRead(r) ==
    /\ phase = "built"
    /\ reads[r].pc = "none"
    /\ \A q \in ReadIds : q < r => reads[q].pc # "none"
    /\ reads' = [reads EXCEPT ![r].pc = "created"]
    /\ UNCHANGED <<file, filename, phase, fileData, name, consumed, srcPos>>

\* Mutant: `this.consumed = true` is moved behind the drain, out of the
\* first step.
Begin_SetsAfterDrain(r) ==
    /\ reads[r].pc = "created"
    /\ LET b == Branch(fileData, consumed)
       IN  reads' = [reads EXCEPT ![r] = BeginRead(@, fileData, b)]
    /\ UNCHANGED <<file, filename, phase, fileData, name, consumed, srcPos>>

\* The first next(): lines 97-119 up to the first await / yield / throw.
Begin(r) ==
    /\ reads[r].pc = "created"
    /\ LET b == Branch(fileData, consumed)
       IN  /\ reads' = [reads EXCEPT ![r] = BeginRead(@, fileData, b)]
           /\ consumed' = IF SetsConsumed(fileData, b) THEN TRUE ELSE consumed
    /\ UNCHANGED <<file, filename, phase, fileData, name, srcPos>>

\* Mutant: `this.fileData = await data()`, the produced iterable is stored.
ResumeCall_StoresIterable(r) ==
    /\ reads[r].pc = "awaitCall"
    /\ \E ok \in BOOLEAN :
          /\ reads' = [reads EXCEPT ![r] =
                      IF ok THEN [@ EXCEPT !.pc = "drain", !.src = "own",
                                           !.handle = "stream"]
                      ELSE [@ EXCEPT !.pc = "failed", !.err = SourceError]]
          /\ fileData' = IF ok THEN Handle("iter") ELSE fileData
    /\ UNCHANGED <<file, filename, phase, name, consumed, srcPos>>

\* `await data()` settles: the producer's iterable is drained, or it rejected.
ResumeCall(r) ==
    /\ reads[r].pc = "awaitCall"
    /\ \E ok \in BOOLEAN :
          reads' = [reads EXCEPT ![r] =
                      IF ok THEN [@ EXCEPT !.pc = "drain", !.src = "own",
                                           !.handle = "stream"]
                      ELSE [@ EXCEPT !.pc = "failed", !.err = SourceError]]
    /\ UNCHANGED <<file, filename, phase, fileData, name, consumed, srcPos>>

\* `await readFile(..)` settles: the file stream is drained, or the open failed.
ResumeOpen(r) ==
    /\ reads[r].pc = "awaitOpen"
    /\ \E ok \in BOOLEAN :
          reads' = [reads EXCEPT ![r] =
                      IF ok THEN [@ EXCEPT !.pc = "drain", !.src = "own",
                                           !.handle = "file"]
                      ELSE [@ EXCEPT !.pc = "failed", !.err = SourceError]]
    /\ UNCHANGED <<file, filename, phase, fileData, name, consumed, srcPos>>

\* Mutant: a failed response is fetched again instead of thrown.
ResumeFetch_Retries(r) ==
    /\ reads[r].pc = "awaitFetch"
    /\ \E st \in Statuses, body \in BOOLEAN :
          LET response == [Blank EXCEPT !.cls = "Response", !.status = st,
                                        !.hasBody = body, !.url = fileData.href]
          IN  reads' = [reads EXCEPT ![r] =
                IF fetchFileThrows(response)
                THEN [@ EXCEPT !.fetches = @ + 1]
                ELSE [@ EXCEPT !.pc = "drain", !.src = "own", !.handle = "net",
                               !.response = response]]
    /\ UNCHANGED <<file, filename, phase, fileData, name, consumed, srcPos>>

\* `await fetch(url)` settles with a response: lines 153-156.
ResumeFetch(r) ==
    /\ reads[r].pc = "awaitFetch"
    /\ \E st \in Statuses, body \in BOOLEAN :
          LET response == [Blank EXCEPT !.cls = "Response", !.status = st,
                                        !.hasBody = body, !.url = fileData.href]
          IN  reads' = [reads EXCEPT ![r] =
                IF fetchFileThrows(response)
                THEN [@ EXCEPT !.pc = "failed", !.err = ResponseError(response),
                               !.response = response,
                               !.handle = IF body THEN "net" ELSE "none"]
                ELSE [@ EXCEPT !.pc = "drain", !.src = "own", !.handle = "net",
                               !.response = response]]
    /\ UNCHANGED <<file, filename, phase, fileData, name, consumed, srcPos>>

\* `await fetch(url)` rejects (network failure).
FetchRejects(r) ==
    /\ reads[r].pc = "awaitFetch"
    /\ reads' = [reads EXCEPT ![r].pc = "failed", ![r].err = SourceError]
    /\ UNCHANGED <<file, filename, phase, fileData, name, consumed, srcPos>>

\* Position of the stream read r drains.
StreamPos(r) == IF reads[r].src = "shared" THEN srcPos ELSE reads[r].pos

\* Mutant: the first chunk is taken from the stream but not yielded.
DrainChunk_DropsFirst(r) ==
    /\ reads[r].pc = "drain"
    /\ StreamPos(r) < MaxChunks
    /\ reads' = [reads EXCEPT ![r].out = IF StreamPos(r) = 0 THEN @
                                         ELSE Append(@, Chunk(StreamPos(r) + 1)),
                              ![r].pulls = @ + 1,
                              ![r].pos = IF reads[r].src = "own" THEN @ + 1 ELSE @]
    /\ srcPos' = IF reads[r].src = "shared" THEN srcPos + 1 ELSE srcPos
    /\ UNCHANGED <<file, filename, phase, fileData, name, consumed>>

\* yield*: the next chunk of the drained stream is passed on to the consumer.
DrainChunk(r) ==
    /\ reads[r].pc = "drain"
    /\ StreamPos(r) < MaxChunks
    /\ reads' = [reads EXCEPT ![r].out = Append(@, Chunk(StreamPos(r) + 1)),
                              ![r].pulls = @ + 1,
                              ![r].pos = IF reads[r].src = "own" THEN @ + 1 ELSE @]
    /\ srcPos' = IF reads[r].src = "shared" THEN srcPos + 1 ELSE srcPos
    /\ UNCHANGED <<file, filename, phase, fileData, name, consumed>>

\* yield*: the drained stream reports its end; the generator returns.
DrainEnd(r) ==
    /\ reads[r].pc = "drain"
    /\ reads' = [reads EXCEPT ![r].pc = "done", ![r].pulls = @ + 1,
                              ![r].handle = "none"]
    /\ UNCHANGED <<file, filename, phase, fileData, name, consumed, srcPos>>

\* yield*: the drained stream throws; the error passes through the generator.
DrainThrows(r) ==
    /\ reads[r].pc = "drain"
    /\ reads' = [reads EXCEPT ![r].pc = "failed", ![r].err = SourceError,
                              ![r].pulls = @ + 1, ![r].handle = "none"]
    /\ UNCHANGED <<file, filename, phase, fileData, name, consumed, srcPos>>

\* next() after `yield data`: the generator runs off its end.
Finish(r) ==
    /\ reads[r].pc = "yielded"
    /\ reads' = [reads EXCEPT ![r].pc = "done"]
    /\ UNCHANGED <<file, filename, phase, fileData, name, consumed, srcPos>>

\* The consumer stops early: return() on a generator suspended at its start
\* or at a yield; a yield* passes the return() on to the drained stream.
Abandon(r) ==
    /\ reads[r].pc \in {"created", "yielded", "drain"}
    /\ reads' = [reads EXCEPT ![r].pc = "returned", ![r].handle = "none"]
    /\ UNCHANGED <<file, filename, phase, fileData, name, consumed, srcPos>>

Next ==
    \/ Construct
    \/ \E r \in ReadIds :
          \/ NewRead(r)
          \/ Begin(r)
          \/ ResumeCall(r)
          \/ ResumeOpen(r)
          \/ ResumeFetch(r)
          \/ FetchRejects(r)
          \/ DrainChunk(r)
          \/ DrainEnd(r)
          \/ DrainThrows(r)
          \/ Finish(r)
          \/ Abandon(r)

Spec == Init /\ [][Next]_vars

\* Construction alone, over every input.
NextConstruct == Construct
SpecConstruct == InitConstruct /\ [][NextConstruct]_vars

\* ================================================================== claims
\* The canonical variant of an input, in the vocabulary of the data model.
Variant(f) ==
    IF Has(f, "base64") THEN "DataUrl"
    ELSE IF Has(f, "readable") THEN "ReadableHandle"
    ELSE IF f.cls = "Response" THEN "NetworkResponse"
    ELSE IF Has(f, "url") \/ f.cls = "URL" THEN "RemoteUrl"
    ELSE IF f.cls = "Uint8Array" THEN "Bytes"
    ELSE IF f.cls = "Function" THEN "Lazy"
    ELSE IF f.cls \in {"Blob", "File"} THEN "FileLike"
    ELSE IF f.cls = "AsyncIterable" THEN "Iterable"
    ELSE "LocalPath"

SingleUseVariants == {"ReadableHandle", "NetworkResponse", "Iterable"}
RederivableVariants == {"Bytes", "LocalPath", "RemoteUrl", "DataUrl", "Lazy"}

\* Read r has executed its first step.
Begun(r) == reads[r].branch # "none"

\* I/O operations read r has performed.
IO(r) ==
    reads[r].calls + reads[r].opens + reads[r].fetches + reads[r].streams
        + reads[r].pulls

\* Read r failed with the reuse error, with no I/O and no chunk.
ReuseFailed(r) ==
    /\ reads[r].pc = "failed"
    /\ reads[r].err = ReuseError
    /\ reads[r].out = <<>>
    /\ IO(r) = 0

\* Of the reads that have begun, exactly one got to drain the source and every
\* other failed with the reuse error.
OneReadThenReuse ==
    /\ \A r, q \in ReadIds :
          r # q /\ Begun(r) /\ Begun(q) => ReuseFailed(r) \/ ReuseFailed(q)
    /\ (\E r \in ReadIds : Begun(r))
          => \E r \in ReadIds : Begun(r) /\ reads[r].src = "shared"

\* C1 (as stated): for an instance backed by a ReadableHandle, a
\* NetworkResponse or a generic async iterable, the first read gets to drain
\* the source and every further read fails with the reuse error before any
\* I/O and without a chunk.
C1_Original == Variant(file) \in SingleUseVariants => OneReadThenReuse

\* The source is drained directly: an async iterable without a `stream`
\* member, or a response that has a body.
DrainedDirectly(f) ==
    \/ Variant(f) = "ReadableHandle" /\ ~Has(Handle(f.readable), "stream")
    \/ Variant(f) = "Iterable" /\ ~Has(f, "stream")
    \/ Variant(f) = "NetworkResponse" /\ f.hasBody

\* C1 (amended): for a ReadableHandle or generic async iterable that has no
\* `stream` member, or a NetworkResponse with a body, the first read gets to
\* drain the source and every further read fails with the reuse error before
\* any I/O and without a chunk.
C1_ReuseAfterFirstRead == DrainedDirectly(file) => OneReadThenReuse

C1_Witness ==
    /\ Variant(file) = "ReadableHandle"
    /\ DrainedDirectly(file)
    /\ reads[1].pc = "returned" /\ Len(reads[1].out) = 1
    /\ ReuseFailed(2)

\* C2: for Bytes, LocalPath, RemoteUrl, DataUrl and Lazy instances no read
\* sets `consumed`, none fails with the reuse error, and every read that has
\* begun has opened, fetched or invoked its resource exactly once (a Lazy
\* producer once per read; Bytes has nothing to re-derive).
C2_RederivableNeverConsumed ==
    Variant(file) \in RederivableVariants =>
        /\ ~consumed
        /\ \A r \in ReadIds :
              /\ reads[r].err # ReuseError
              /\ Begun(r) =>
                    /\ reads[r].calls + reads[r].opens + reads[r].fetches
                          = IF Variant(file) = "Bytes" THEN 0 ELSE 1
                    /\ Variant(file) = "Lazy" => reads[r].calls = 1
                    /\ Variant(file) = "LocalPath" => reads[r].opens = 1
                    /\ Variant(file) \in {"RemoteUrl", "DataUrl"}
                          => reads[r].calls = 0

C2_Witness ==
    /\ Variant(file) = "Lazy"
    /\ \A r \in {1, 2} :
          /\ reads[r].pc = "done"
          /\ reads[r].calls = 1
          /\ Len(reads[r].out) = MaxChunks

\* C3: `consumed` starts false, only ever changes from false to true (so at
\* most once), and is true only for a ReadableHandle, NetworkResponse or
\* Iterable instance.
C3_ConsumedMonotone ==
    /\ consumed = FALSE
    /\ [][consumed => consumed']_vars
    /\ [](consumed => Variant(file) \in SingleUseVariants)

C3_Witness ==
    /\ consumed
    /\ Variant(file) = "NetworkResponse"
    /\ \E r \in ReadIds : reads[r].pc = "done"

\* C4: a Uint8Array input without an explicit filename has no name, and every
\* read of it yields exactly one chunk, the buffer itself, and then ends
\* without an error.
C4_BytesOneChunk ==
    Variant(file) = "Bytes" /\ filename = Undefined =>
        /\ name = Undefined
        /\ \A r \in ReadIds :
              /\ reads[r].pc \in {"none", "created", "yielded", "done", "returned"}
              /\ reads[r].out = IF Begun(r) THEN <<file.buf>> ELSE <<>>

C4_Witness ==
    /\ Variant(file) = "Bytes" /\ filename = Undefined /\ phase = "built"
    /\ name = Undefined
    /\ \A r \in {1, 2} : reads[r].pc = "done" /\ reads[r].out = <<Buffer>>

\* C5: when the fetch of a RemoteUrl read returns a response that is not
\* successful (status outside 200..299) or has no body, the read fails with a
\* ResponseError whose error_code is the response's status and which carries
\* the response, and it has yielded no chunk.
C5_FetchFailure ==
    \A r \in ReadIds :
        LET response == reads[r].response
        IN  /\ response.cls = "Response"
            /\ (response.status < 200 \/ response.status > 299 \/ ~response.hasBody)
            => /\ reads[r].pc = "failed"
               /\ reads[r].err.kind = "ResponseError"
               /\ reads[r].err.error_code = response.status
               /\ reads[r].err.response = response
               /\ reads[r].out = <<>>

C5_Witness ==
    /\ Variant(file) = "RemoteUrl"
    /\ reads[1].fetches = 1
    /\ reads[1].response.status = 404 /\ reads[1].response.hasBody
    /\ reads[1].pc = "failed" /\ reads[1].err.error_code = 404

\* C6: every read of a NetworkResponse instance whose body is absent fails
\* with a ResponseError carrying that response, whatever its status, and
\* yields no chunk.
C6_ResponseWithoutBody ==
    Variant(file) = "NetworkResponse" /\ ~file.hasBody =>
        \A r \in ReadIds :
            Begun(r) => /\ reads[r].pc = "failed"
                        /\ reads[r].err.kind = "ResponseError"
                        /\ reads[r].err.error_code = file.status
                        /\ reads[r].err.response = file
                        /\ reads[r].out = <<>>

C6_Witness ==
    /\ Variant(file) = "NetworkResponse" /\ ~file.hasBody /\ file.status = 200
    /\ reads[1].pc = "failed" /\ reads[1].err.kind = "ResponseError"

\* C7: a read of a RemoteUrl instance whose URL has the file scheme opens the
\* local file and performs no network fetch.
C7_FileUrlReadsFile ==
    fileData.cls = "URL" /\ fileData.href.scheme = "file" =>
        \A r \in ReadIds :
            Begun(r) => reads[r].opens = 1 /\ reads[r].fetches = 0

\* C8: preprocess classifies by the first matching rule in the order base64,
\* readable, response object, url, pass-through.
C8_NormalizerOrder ==
    phase = "built" =>
        IF Has(file, "base64")
        THEN /\ fileData.cls = "URL"
             /\ fileData.href = UrlText("data", <<>>, <<";base64,">> \o file.base64)
        ELSE IF Has(file, "readable") THEN fileData = Handle(file.readable)
        ELSE IF file.cls = "Response" THEN fileData = file
        ELSE IF Has(file, "url")
        THEN fileData.cls = "URL" /\ fileData.href = file.url
        ELSE fileData = file

C8_Witness ==
    /\ phase = "built"
    /\ file.cls = "Response" /\ Has(file, "url") /\ file.url # NoUrlText
    /\ fileData = file

AllSlashes(s) == \A i \in 1..Len(s) : s[i] = "/"

\* b is the last segment of p that is not empty (trailing slashes ignored),
\* or "" when p has no such segment.
IsLastSegment(b, p) ==
    IF AllSlashes(p) THEN b = <<>>
    ELSE /\ b # <<>>
         /\ \A i \in 1..Len(b) : b[i] # "/"
         /\ \E k \in 0..Len(p) :
               /\ k + Len(b) <= Len(p)
               /\ SubSeq(p, k + 1, k + Len(b)) = b
               /\ k = 0 \/ p[k] = "/"
               /\ AllSlashes(SubSeq(p, k + Len(b) + 1, Len(p)))

\* The stored value is a URL for the purpose of inference: a URL object, or a
\* value with a non-empty `url` (a response object).
InfersFromUrl(d) == d.cls = "URL" \/ (Has(d, "url") /\ d.url # NoUrlText)
InferenceUrl(d) == IF d.cls = "URL" THEN d.href ELSE d.url

\* C9 (as stated): without an explicit filename, a URL whose path is the root
\* or ends in a slash gets the URL's host as name, and a name inferred from a
\* URL is never the empty string.
C9_Original ==
    /\ phase = "built" /\ filename = Undefined
    /\ ~(Has(fileData, "path") /\ fileData.pathIsString)
    /\ InfersFromUrl(fileData)
    => LET p == UrlPathname(InferenceUrl(fileData))
       IN  /\ name.def /\ name.s # <<>>
           /\ p[Len(p)] = "/" => name.s = InferenceUrl(fileData).host

\* C9 (amended): without an explicit filename, a `path` string gives its
\* basename (last non-empty segment); otherwise a File gives its name;
\* otherwise a value that is neither a URL nor carries a non-empty `url` gives
\* no name; otherwise the URL's path gives its last non-empty segment, and a
\* path of slashes only gives the URL's hostname, which may be empty.
C9_InferredName ==
    phase = "built" /\ filename = Undefined =>
        IF Has(fileData, "path") /\ fileData.pathIsString
        THEN name.def /\ IsLastSegment(name.s, fileData.path)
        ELSE IF fileData.cls = "File" THEN name = Str(fileData.name)
        ELSE IF ~InfersFromUrl(fileData) THEN name = Undefined
        ELSE LET u == InferenceUrl(fileData)
             IN  /\ name.def
                 /\ IF AllSlashes(UrlPathname(u)) THEN name.s = u.host
                    ELSE IsLastSegment(name.s, UrlPathname(u))

C9_Witness ==
    /\ phase = "built" /\ filename = Undefined
    /\ Has(file, "url")
    /\ file.url = UrlText("https", <<"h">>, <<"/", "a", "/">>)
    /\ name = Str(<<"a">>)

\* C10: an explicit filename is the name, whatever would have been inferred;
\* the inferred name is used only when no filename was given.
C10_ExplicitFilename ==
    phase = "built" =>
        /\ filename # Undefined => name = filename
        /\ filename = Undefined => name = guessFilename(fileData)

C10_Witness ==
    /\ phase = "built"
    /\ filename = Str(<<>>) /\ name = Str(<<>>)
    /\ guessFilename(fileData) = Str(<<"a">>)

\* Read r has ended: it ran to completion, threw, or was closed by its consumer.
Ended(r) == reads[r].pc \in {"done", "failed", "returned"}

\* C11: once a read has ended (completed, failed, or stopped early by the
\* consumer) no local-file or network handle opened by it is still open.
C11_HandlesReleased ==
    \A r \in ReadIds : Ended(r) => reads[r].handle \notin {"file", "net"}

\* C12: construction performs no I/O: before a read has executed its first
\* step no producer has been invoked, no file opened, nothing fetched and no
\* chunk taken from a supplied stream.
C12_NoIOAtConstruction ==
    /\ phase = "new" => \A r \in ReadIds : reads[r] = NoRead
    /\ srcPos > 0 => \E r \in ReadIds : Begun(r)
    /\ \A r \in ReadIds :
          ~Begun(r) => /\ IO(r) = 0
                       /\ reads[r].out = <<>>
                       /\ reads[r].handle = "none"

C12_Witness ==
    /\ phase = "built"
    /\ Variant(file) \in {"Lazy", "LocalPath", "RemoteUrl", "Iterable"}
    /\ reads[1].pc = "created" /\ IO(1) = 0
    /\ srcPos = 0

\* C13: an error ends the read it is raised in: a read that has thrown never
\* changes again (nothing is caught, retried or yielded afterwards), and one
\* read makes at most one fetch, one file open and one producer call.
C13_ErrorsEndTheRead ==
    /\ [](\A r \in ReadIds :
            /\ reads[r].fetches <= 1
            /\ reads[r].opens <= 1
            /\ reads[r].calls <= 1
            /\ reads[r].err # NoError => reads[r].pc = "failed")
    /\ [][\A r \in ReadIds : reads[r].pc = "failed" => reads'[r] = reads[r]]_vars

C13_Witness ==
    /\ reads[1].pc = "failed"
    /\ reads[1].err.kind = "ResponseError"
    /\ reads[1].fetches = 1 /\ reads[1].out = <<>>
    /\ reads[2].pc = "done"

C15_RepresentationFixed ==
    [][phase = "built" =>
          /\ fileData' = fileData
          /\ name' = name
          /\ phase' = "built"]_vars

C15_Witness ==
    /\ phase = "built"
    /\ consumed
    /\ reads[1].pc = "returned" /\ reads[2].pc = "failed"
    /\ fileData = preprocess(file)

\* C16: a read that drains a stream has yielded exactly the chunks the stream
\* has delivered, in the stream's order, and when the stream reported its end
\* the read completed with nothing yielded after the last chunk.
C16_ChunksInOrder ==
    \A r \in ReadIds :
        reads[r].src # "none" =>
            /\ Len(reads[r].out) = StreamPos(r)
            /\ \A i \in 1..Len(reads[r].out) : reads[r].out[i] = Chunk(i)
            /\ reads[r].pc = "done" => reads[r].pulls = Len(reads[r].out) + 1

C16_Witness ==
    /\ Variant(file) = "LocalPath"
    /\ reads[1].pc = "done"
    /\ reads[1].out = <<Chunk(1), Chunk(2)>>

\* C17: a stored source with a `stream` member is read by calling stream()
\* once per read and draining the stream returned, also when the source is
\* itself async iterable; no such read sets `consumed` or is refused.
C17_StreamMethodDispatch ==
    Has(fileData, "stream") =>
        /\ ~consumed
        /\ \A r \in ReadIds :
              Begun(r) => /\ reads[r].branch = "stream"
                          /\ reads[r].streams = 1
                          /\ reads[r].src = "own"
                          /\ reads[r].calls + reads[r].opens + reads[r].fetches = 0

C17_Witness ==
    /\ Has(file, "readable")
    /\ Has(fileData, "stream") /\ Has(fileData, "asyncIterator")
    /\ \A r \in {1, 2} :
          /\ reads[r].pc = "done"
          /\ reads[r].streams = 1
          /\ Len(reads[r].out) >= 1

\* C18: a read of a NetworkResponse without body fails with the
\* response-error and leaves `consumed` false, so every later read fails
\* with the response-error again and none with the reuse error.
C18_FailedResponseNotConsumed ==
    Variant(file) = "NetworkResponse" /\ ~file.hasBody =>
        /\ ~consumed
        /\ \A r \in ReadIds :
              /\ reads[r].err # ReuseError
              /\ Begun(r) => reads[r].branch = "response"

C18_Witness ==
    /\ Variant(file) = "NetworkResponse" /\ ~file.hasBody
    /\ ~consumed
    /\ \A r \in {1, 2} :
          reads[r].pc = "failed" /\ reads[r].err = ResponseError(file)

\* C19: for a directly drained single-use instance the flag is set before a
\* chunk is taken: once a read has got past the reuse check the flag is set,
\* and only that read ever yields a chunk, also after it was abandoned or
\* its stream threw.
C19_ConsumedBeforeFirstChunk ==
    DrainedDirectly(file) =>
        /\ (srcPos > 0 \/ \E r \in ReadIds : reads[r].src = "shared") => consumed
        /\ \A r, q \in ReadIds :
              r # q /\ reads[r].src = "shared" => reads[q].out = <<>>

C19_Witness ==
    /\ Variant(file) = "Iterable" /\ DrainedDirectly(file)
    /\ reads[1].pc = "returned" /\ reads[1].src = "shared"
    /\ reads[1].out = <<>>
    /\ reads[2].pc = "failed" /\ reads[2].err = ReuseError

\* C20: a caller-supplied response with a body is drained whatever its
\* status: no read of it raises a response-error, and the read that gets
\* past the reuse check drains the body.
C20_SuppliedResponseStatusIgnored ==
    Variant(file) = "NetworkResponse" /\ file.hasBody =>
        \A r \in ReadIds :
            /\ reads[r].err.kind # "ResponseError"
            /\ Begun(r) => reads[r].src = "shared" \/ ReuseFailed(r)

C20_Witness ==
    /\ Variant(file) = "NetworkResponse" /\ file.hasBody /\ file.status = 404
    /\ reads[1].pc = "done"
    /\ Len(reads[1].out) = MaxChunks

====
